---------------------------- MODULE Spec2Model ----------------------------
(***************************************************************************)
(* Model of the container manager of udp-benchmark (crate `manager`):      *)
(*   - the ChildState <-> isize / u8 conversions   (src/manager/src/os/mod.rs)   *)
(*   - Child and ContainerManager                  (src/manager/src/os/linux.rs) *)
(*   - the driver Config::run                      (src/manager/src/config/mod.rs)*)
(*                                                                         *)
(* isize is modelled as a two's complement word of WordBits bits; every    *)
(* shift, mask and addition below is the machine operation at that width.  *)
(***************************************************************************)
EXTENDS Integers, Sequences, FiniteSets, TLC

VARIABLES
    cin,        \* conversion harness: the value handed to a conversion
    cout,       \* conversion harness: the conversion applied and its result
    children,   \* every Child value constructed so far, in construction order
    childs,     \* ContainerManager.childs: BTreeMap<Pid, Child>, pid -> index in children
    managers,   \* ContainerManager.managers: AtomicIsize
    lock,       \* holder of the childs mutex (a task id), or NoTask
    task,       \* per manager-side task: the call it is in, its locals, its last return value
    run,        \* Config::run: its position, the containers still to create, its result
    proc,       \* per pid: the kernel's view of the cloned process
    sigenv,     \* how SIGHUP/SIGINT reach a cloned process (inherited mask and disposition)
    sent,       \* per Child: the number of kill(pid, SIGHUP) calls its start() has made
    hist        \* Child harness: the calls made on the Child so far, with their results

vars == <<cin, cout, children, childs, managers, lock, task, run, proc, sigenv, sent, hist>>

-----------------------------------------------------------------------------
(* Bounds of the model *)

\* width in bits of the modelled isize
WordBits == 13
\* process ids the kernel hands out: 1 .. MaxPid
MaxPid == 2
\* Child values constructed in one run (calls of spawn_child that reach clone)
MaxChildren == 2
\* manager-side tasks that may call the ContainerManager concurrently
NTasks == 2
\* calls the Child harness makes on its Child
MaxCalls == 3

-----------------------------------------------------------------------------
(* Machine integers *)

WordMod  == 2 ^ WordBits
IsizeMin == -(2 ^ (WordBits - 1))
IsizeMax == 2 ^ (WordBits - 1) - 1
Isize    == IsizeMin .. IsizeMax
U8       == 0 .. 255

\* the value of a two's complement word after wrap-around
WrapIsize(x) == ((x - IsizeMin) % WordMod) + IsizeMin

\* the word as an unsigned bit pattern
Unsigned(x) == x % WordMod

RECURSIVE BitsAnd(_, _, _)
BitsAnd(a, b, n) ==
    IF n = 0 THEN 0
    ELSE (IF a % 2 = 1 /\ b % 2 = 1 THEN 1 ELSE 0)
         + 2 * BitsAnd(a \div 2, b \div 2, n - 1)

RECURSIVE BitsOr(_, _, _)
BitsOr(a, b, n) ==
    IF n = 0 THEN 0
    ELSE (IF a % 2 = 1 \/ b % 2 = 1 THEN 1 ELSE 0)
         + 2 * BitsOr(a \div 2, b \div 2, n - 1)

\* a & b, a | b on isize
And(a, b) == WrapIsize(BitsAnd(Unsigned(a), Unsigned(b), WordBits))
Or(a, b)  == WrapIsize(BitsOr(Unsigned(a), Unsigned(b), WordBits))

\* a << k on isize: the bits shifted out at the top are lost
Shl(a, k) == WrapIsize(a * (2 ^ k))

\* a >> k on isize: arithmetic (sign-preserving) shift
ShrLogical(a, k) == Unsigned(a) \div (2 ^ k)
Shr(a, k) == a \div (2 ^ k)

-----------------------------------------------------------------------------
(* ChildState and its conversions *)

None       == [tag |-> "None"]
Created    == [tag |-> "Created"]
Started    == [tag |-> "Started"]
Stopped    == [tag |-> "Stopped"]
Crashed(s) == [tag |-> "Crashed", status |-> s]

PlainStates == {None, Created, Started, Stopped}
ChildState  == PlainStates \cup {Crashed(s) : s \in Isize}

Ok(v)  == [ok |-> TRUE, val |-> v]
Err(m) == [ok |-> FALSE, err |-> m]

\* Result::unwrap_or
UnwrapOr(r, d) == IF r.ok THEN r.val ELSE d

\* #[derive(Ord)]: the variants in declaration order, Crashed by its payload
Discriminant(s) ==
    CASE s.tag = "None"    -> 0
      [] s.tag = "Created" -> 1
      [] s.tag = "Started" -> 2
      [] s.tag = "Stopped" -> 3
      [] s.tag = "Crashed" -> 4

\* a >= b for ChildState
Ge(a, b) ==
    \/ Discriminant(a) > Discriminant(b)
    \/ /\ Discriminant(a) = Discriminant(b)
       /\ (a.tag = "Crashed" => a.status >= b.status)

\* impl TryFrom<u8> for ChildState, were the byte 4 to stand for a crash
TryFromU8WithCrashed(value) ==
    CASE value = 0 -> Ok(None)
      [] value = 1 -> Ok(Created)
      [] value = 2 -> Ok(Started)
      [] value = 3 -> Ok(Stopped)
      [] value = 4 -> Ok(Crashed(0))
      [] OTHER     -> Err("Invalid ChildState")

\* impl TryFrom<u8> for ChildState
TryFromU8(value) ==
    CASE value = 0 -> Ok(None)
      [] value = 1 -> Ok(Created)
      [] value = 2 -> Ok(Started)
      [] value = 3 -> Ok(Stopped)
      [] OTHER     -> Err("Invalid ChildState")

\* impl TryFrom<isize> for ChildState
TryFromIsizeLogicalShift(value) ==
    LET state == And(value, 15) IN
    IF state = 4 THEN Ok(Crashed(ShrLogical(value, 4)))
    ELSE TryFromU8(state % 256)

TryFromIsizeMask7(value) ==
    LET state == And(value, 7) IN
    IF state = 4 THEN Ok(Crashed(Shr(value, 4)))
    ELSE TryFromU8(state % 256)

TryFromIsize(value) ==
    LET state == And(value, 15) IN
    IF state = 4 THEN Ok(Crashed(Shr(value, 4)))
    ELSE TryFromU8(state % 256)

\* impl TryFrom<ChildState> for u8
U8TryFrom(value) ==
    CASE value = None    -> Ok(0)
      [] value = Created -> Ok(1)
      [] value = Started -> Ok(2)
      [] value = Stopped -> Ok(3)
      [] OTHER           -> Err("Cannot transform to u8")

\* impl From<ChildState> for isize
IsizeFromNoTag(value) ==
    IF value.tag = "Crashed" THEN Shl(value.status, 4)
    ELSE UnwrapOr(U8TryFrom(value), 0)

IsizeFrom(value) ==
    IF value.tag = "Crashed" THEN Shl(value.status, 4) + 4
    ELSE UnwrapOr(U8TryFrom(value), 0)

-----------------------------------------------------------------------------
(* Config: OutputFormat and Container *)

OutputFormat == {"None", "Client", "Passthrough", "Router", "RouterLogging"}

\* Container::is_router
IsRouter(config) == config \in {"Router", "RouterLogging"}

\* Container::has_file
HasFile(config) == config \in {"Client", "Passthrough", "RouterLogging"}

-----------------------------------------------------------------------------
(* The kernel: cloned processes, signals, exit statuses *)

Pids   == 1 .. MaxPid
Tasks  == 1 .. NTasks
NoTask == 0

SIGHUP == 1
SIGINT == 2
ENOTRECOVERABLE == 131

\* the environments a cloned child can inherit for SIGHUP and SIGINT:
\*   "blocked": in the signal mask, so a signal stays pending until sigwait takes it
\*   "default": unblocked with the default disposition, so a signal terminates the
\*              process, also while it sleeps in sigwait (Linux complete_signal)
\*   "ignored": unblocked and ignored (nohup), so a signal is discarded
SigEnvs == {"blocked", "default", "ignored"}

NoExit        == [kind |-> "none", code |-> 0]
Exited(code)  == [kind |-> "exited", code |-> code]
Signaled(sig) == [kind |-> "signaled", code |-> sig]

\* st: "free" (no such process), "setup" (cloned, before sigwait), "sigwait",
\*     "workload" (past the barrier), "sleeping" (output written), "zombie"
FreeProc == [st |-> "free", child |-> 0, pend |-> {}, exit |-> NoExit]

Live(pr) == pr.st \in {"setup", "sigwait", "workload", "sleeping"}

\* the exit status waitpid reports for a value returned from the clone callback:
\* the callback's isize is cast to c_int and the kernel keeps its low 8 bits
ExitCode(r) == r % 256

\* kill(pid, sig) succeeds while the pid names a process, zombies included
KillOk(p) == proc[p].st # "free"

\* the process after a signal has been sent to it
Deliver(pr, sig) ==
    IF ~Live(pr) THEN pr
    ELSE CASE sigenv = "blocked" -> [pr EXCEPT !.pend = @ \cup {sig}]
           [] sigenv = "default" -> [pr EXCEPT !.st = "zombie", !.pend = {},
                                               !.exit = Signaled(sig)]
           [] sigenv = "ignored" -> pr

\* fn main_child, up to the barrier: what it does with child_wait_start's result.
\* [run |-> TRUE] passes the barrier, [run |-> FALSE, ret |-> r] returns r.
MainChildBarrier(signal) ==
    IF signal < 0 THEN [run |-> FALSE, ret |-> signal]
    ELSE IF signal = SIGINT THEN [run |-> FALSE, ret |-> 1]
    ELSE IF signal # SIGHUP THEN [run |-> FALSE, ret |-> -ENOTRECOVERABLE]
    ELSE [run |-> TRUE, ret |-> 0]

\* sigwait takes the lowest-numbered pending signal of its set
Min(S) == CHOOSE x \in S : \A y \in S : x <= y

-----------------------------------------------------------------------------
(* Child *)

\* Option of fetch_update's closure
NoneOpt    == [some |-> FALSE, v |-> 0]
Some(v)    == [some |-> TRUE, v |-> v]

\* the value returned by a call: which call, Ok or Err, the error text, the
\* ChildState it carries (the observed state of an error, the old state of
\* set_state), and the container named in the error's context
Ret(op, ok, err, st, name) ==
    [op |-> op, ok |-> ok, err |-> err, state |-> st, name |-> name]
NoRet == Ret("", TRUE, "", None, "")
RetOk(op)           == Ret(op, TRUE, "", None, "")
RetErr(op, err)     == Ret(op, FALSE, err, None, "")
RetErrState(op, err, st) == Ret(op, FALSE, err, st, "")

\* ChildState::try_from(x).unwrap_or(ChildState::None)
StateOf(x) == UnwrapOr(TryFromIsize(x), None)

\* the closure of Child::start
StartUpdateAny(x) ==
    LET state == TryFromIsize(x) IN
    IF ~state.ok THEN NoneOpt
    ELSE IF Ge(state.val, Stopped) THEN NoneOpt
    ELSE Some(IsizeFrom(Started))

StartUpdate(x) ==
    LET state == TryFromIsize(x) IN
    IF ~state.ok THEN NoneOpt
    ELSE IF state.val # Created THEN NoneOpt
    ELSE Some(IsizeFrom(Started))

\* the closure of Child::next_state
NextStateUpdateCrashedOnly(x) ==
    LET state == TryFromIsize(x) IN
    IF ~state.ok THEN NoneOpt
    ELSE IF Ge(state.val, Crashed(IsizeMin)) THEN NoneOpt
    ELSE Some(IsizeFrom(state.val) + 1)

NextStateUpdate(x) ==
    LET state == TryFromIsize(x) IN
    IF ~state.ok THEN NoneOpt
    ELSE IF Ge(state.val, Stopped) THEN NoneOpt
    ELSE Some(IsizeFrom(state.val) + 1)

\* the closure of Child::set_exit_state
SetExitUpdateStoppedOnly(x, status) ==
    LET state == TryFromIsize(x) IN
    IF ~state.ok THEN NoneOpt
    ELSE IF state.val = Stopped THEN NoneOpt
    ELSE Some(IsizeFrom(Crashed(status)))

SetExitUpdate(x, status) ==
    LET state == TryFromIsize(x) IN
    IF ~state.ok THEN NoneOpt
    ELSE IF Ge(state.val, Stopped) THEN NoneOpt
    ELSE Some(IsizeFrom(Crashed(status)))

\* AtomicIsize::fetch_update: the word afterwards
FetchUpdate(x, opt) == IF opt.some THEN opt.v ELSE x

\* Child::start on child c: the state word afterwards, whether kill is called,
\* and the value returned
ChildStart(c) ==
    LET upd == StartUpdate(c.state) IN
    IF ~upd.some
    THEN [state |-> c.state, kill |-> FALSE,
          ret |-> RetErrState("start", "Child is in state", StateOf(c.state))]
    ELSE [state |-> upd.v, kill |-> TRUE,
          ret |-> IF KillOk(c.pid) THEN RetOk("start")
                  ELSE RetErr("start", "Failed to start child")]

\* Child::next_state
ChildNextState(c) ==
    LET upd == NextStateUpdate(c.state) IN
    [state |-> FetchUpdate(c.state, upd),
     ret   |-> IF upd.some THEN RetOk("next_state")
               ELSE RetErrState("next_state", "state is", StateOf(c.state))]

\* Child::set_state, were it to keep a Stopped or Crashed state as
\* set_exit_state does
ChildSetStateKeepTerminal(c, status) ==
    [state |-> IF StateOf(c.state).tag \in {"Stopped", "Crashed"}
               THEN c.state ELSE IsizeFrom(status),
     ret   |-> Ret("set_state", TRUE, "", StateOf(c.state), "")]

\* Child::set_state
ChildSetState(c, status) ==
    [state |-> IsizeFrom(status),
     ret   |-> Ret("set_state", TRUE, "", StateOf(c.state), "")]

\* Child::set_exit_state
ChildSetExitState(c, status) ==
    LET upd == SetExitUpdate(c.state, status) IN
    [state |-> FetchUpdate(c.state, upd),
     ret   |-> IF upd.some THEN RetOk("set_exit_state")
               ELSE RetErrState("set_exit_state",
                                "State is already, cannot crash anymore",
                                StateOf(c.state))]

-----------------------------------------------------------------------------
(* State shared by the specifications *)

\* the names of the containers, in a fixed order
NameSeq == <<"a", "b", "c", "d", "e">>
Names   == {NameSeq[i] : i \in 1 .. MaxChildren}

IdleTask == [pc |-> "idle", ret |-> NoRet, idx |-> 0, iter |-> 0,
             running |-> 0, pid |-> 0, status |-> 0, slot |-> 0]

NoRun == [pc |-> "none", containers |-> <<>>, todo |-> {}, cur |-> "", ret |-> NoRet]

NoInput  == [kind |-> "none", v |-> 0]
NoOutput == [fn |-> "none"]

\* the pids that are keys of the registry, and the entry of a key
Registered == {p \in Pids : childs[p] # 0}
Entry(p)   == children[childs[p]]

\* the place of a key in the BTreeMap's leaf node (entries are kept in key order
\* in one array while the map has at most 11 entries), and the key at a place
SlotOf(p)  == Cardinality({q \in Registered : q <= p})
KeyAt(k)   == CHOOSE p \in Registered : SlotOf(p) = k

\* ContainerManager::new
NewChilds == [p \in Pids |-> 0]

\* the state all specifications start from: no manager call in progress, no
\* cloned process, an empty registry
Quiet ==
    /\ children = <<>>
    /\ childs = NewChilds
    /\ managers = 0
    /\ lock = NoTask
    /\ task = [t \in Tasks |-> IdleTask]
    /\ proc = [p \in Pids |-> FreeProc]
    /\ sent = <<>>

codecVars   == <<cin, cout, hist>>
managerVars == <<children, childs, managers, lock, task, proc, sent>>

-----------------------------------------------------------------------------
(* The cloned process: fn main_child, fn child_wait_start *)

\* unistd::sethostname(name), then child_wait_start blocks in sigwait
ProcSetup(p) ==
    /\ proc[p].st = "setup"
    /\ proc' = [proc EXCEPT ![p].st = "sigwait"]
    /\ UNCHANGED <<children, childs, managers, lock, task, sent, sigenv, codecVars>>

\* sigwait returns a pending signal; main_child returns or passes the barrier
ProcSigwait(p) ==
    /\ proc[p].st = "sigwait"
    /\ proc[p].pend # {}
    /\ LET signal == Min(proc[p].pend)
           b      == MainChildBarrier(signal)
       IN  proc' = [proc EXCEPT ![p] =
                IF b.run
                THEN [@ EXCEPT !.st = "workload", !.pend = @ \ {signal}]
                ELSE [@ EXCEPT !.st = "zombie", !.pend = {},
                               !.exit = Exited(ExitCode(b.ret))]]
    /\ UNCHANGED <<children, childs, managers, lock, task, sent, sigenv, codecVars>>

\* main_child past the barrier: write into the capture file if there is one
ProcWrite(p) ==
    /\ proc[p].st = "workload"
    /\ proc' = [proc EXCEPT ![p].st = "sleeping"]
    /\ children' = [children EXCEPT ![proc[p].child].file =
                        IF @.some THEN [@ EXCEPT !.len = 1] ELSE @]
    /\ UNCHANGED <<childs, managers, lock, task, sent, sigenv, codecVars>>

\* main_child, were a router to sleep for ever
ProcExitNoRouter(p) ==
    /\ proc[p].st = "sleeping"
    /\ ~IsRouter(children[proc[p].child].config)
    /\ proc' = [proc EXCEPT ![p] = [@ EXCEPT !.st = "zombie", !.pend = {},
                                              !.exit = Exited(ExitCode(0))]]
    /\ UNCHANGED <<children, childs, managers, lock, task, sent, sigenv, codecVars>>

\* main_child: the sleeps are over (62 s for a router, 2 s otherwise), return 0
ProcExit(p) ==
    /\ proc[p].st = "sleeping"
    /\ proc' = [proc EXCEPT ![p] = [@ EXCEPT !.st = "zombie", !.pend = {},
                                              !.exit = Exited(ExitCode(0))]]
    /\ UNCHANGED <<children, childs, managers, lock, task, sent, sigenv, codecVars>>

\* the environment sends the cancel signal SIGINT to a cloned process
EnvCancel(p) ==
    /\ Live(proc[p])
    /\ SIGINT \notin proc[p].pend
    /\ proc' = [proc EXCEPT ![p] = Deliver(@, SIGINT)]
    /\ UNCHANGED <<children, childs, managers, lock, task, sent, sigenv, codecVars>>

-----------------------------------------------------------------------------
(* ContainerManager.  A call is a sequence of steps of the calling task t;    *)
(* a step ends where the call may be suspended or another thread may act:    *)
(* at a lock().await and at the blocking waitpid.                            *)

\* how Child::spawn_child can end
SpawnOutcomes == {"ok", "file", "stack", "clone"}

SpawnError(outcome) ==
    CASE outcome = "file"  -> "Failed to open temporary output file"
      [] outcome = "stack" -> "Failed to allocate stack"
      [] outcome = "clone" -> "Failed to clone"

\* Child::spawn_child, were the state word to start as AtomicIsize::new(0)
SpawnedChildNone(name, config, pid) ==
    [name |-> name, file |-> [some |-> HasFile(config), len |-> 0],
     config |-> config, state |-> 0, pid |-> pid, dropped |-> FALSE]

\* Child::spawn_child's Ok(Self { .. }) for the process the kernel named pid
SpawnedChild(name, config, pid) ==
    [name |-> name, file |-> [some |-> HasFile(config), len |-> 0],
     config |-> config, state |-> 1, pid |-> pid, dropped |-> FALSE]

\* ContainerManager::create_container up to add_child's lock().await:
\* the router counter, then Child::spawn_child
CreateSpawn(t, name, config) ==
    /\ task[t].pc = "idle"
    /\ IsRouter(config) => managers <= MaxChildren
    /\ managers' = IF IsRouter(config) THEN WrapIsize(managers + 1) ELSE managers
    /\ \E outcome \in SpawnOutcomes :
        IF outcome = "ok"
        THEN /\ Len(children) < MaxChildren
             /\ \E pid \in Pids :
                  /\ proc[pid].st = "free"
                  /\ proc' = [proc EXCEPT ![pid] =
                        [st |-> "setup", child |-> Len(children) + 1,
                         pend |-> {}, exit |-> NoExit]]
                  /\ children' = Append(children, SpawnedChild(name, config, pid))
                  /\ sent' = Append(sent, 0)
                  /\ task' = [task EXCEPT ![t] =
                        [IdleTask EXCEPT !.pc = "add_child",
                                         !.idx = Len(children) + 1]]
        ELSE /\ outcome = "file" => HasFile(config)
             /\ task' = [task EXCEPT ![t] =
                   [IdleTask EXCEPT !.ret =
                        RetErr("create_container", SpawnError(outcome))]]
             /\ UNCHANGED <<children, proc, sent>>
    /\ UNCHANGED <<childs, lock, sigenv, codecVars>>

\* ContainerManager::add_child, and create_container's Ok(()).
\* BTreeMap::insert on a key that is present replaces the value: the old Child
\* is dropped.
AddChild(t) ==
    /\ task[t].pc = "add_child"
    /\ lock = NoTask
    /\ LET idx == task[t].idx
           pid == children[idx].pid
           old == childs[pid]
       IN  /\ childs' = [childs EXCEPT ![pid] = idx]
           /\ children' = IF old = 0 THEN children
                          ELSE [children EXCEPT ![old].dropped = TRUE]
    /\ task' = [task EXCEPT ![t] =
            [IdleTask EXCEPT !.ret = RetOk("create_container")]]
    /\ UNCHANGED <<managers, lock, proc, sent, sigenv, codecVars>>

\* ContainerManager::start_childs: take the registry lock
StartLock(t) ==
    /\ task[t].pc = "idle"
    /\ lock = NoTask
    /\ lock' = t
    /\ task' = [task EXCEPT ![t] = [IdleTask EXCEPT !.pc = "start_loop"]]
    /\ UNCHANGED <<children, childs, managers, proc, sent, sigenv, codecVars>>

\* the keys the loop of start_childs has not visited yet
KeysAfter(k) == {p \in Registered : p > k}

\* start_childs: one iteration of the loop, child.start() on the next entry in
\* key order; what start() returns is discarded
StartOne(t) ==
    /\ task[t].pc = "start_loop"
    /\ KeysAfter(task[t].iter) # {}
    /\ LET p   == Min(KeysAfter(task[t].iter))
           idx == childs[p]
           r   == ChildStart(children[idx])
       IN  /\ children' = [children EXCEPT ![idx].state = r.state]
           /\ proc' = IF r.kill /\ KillOk(children[idx].pid)
                      THEN [proc EXCEPT ![children[idx].pid] = Deliver(@, SIGHUP)]
                      ELSE proc
           /\ sent' = IF r.kill THEN [sent EXCEPT ![idx] = @ + 1] ELSE sent
           /\ task' = [task EXCEPT ![t].iter = p]
    /\ UNCHANGED <<childs, managers, lock, sigenv, codecVars>>

\* start_childs: the loop is over, the guard is dropped, Ok(())
StartDone(t) ==
    /\ task[t].pc = "start_loop"
    /\ KeysAfter(task[t].iter) = {}
    /\ lock' = NoTask
    /\ task' = [task EXCEPT ![t] = [IdleTask EXCEPT !.ret = RetOk("start_childs")]]
    /\ UNCHANGED <<children, childs, managers, proc, sent, sigenv, codecVars>>

\* ContainerManager::wait: childs_running = childs.len() under the lock
WaitCountKeepsLock(t) ==
    /\ task[t].pc = "idle"
    /\ lock = NoTask
    /\ lock' = t
    /\ task' = [task EXCEPT ![t] =
            [IdleTask EXCEPT !.pc = "wait_loop",
                             !.running = Cardinality(Registered)]]
    /\ UNCHANGED <<children, childs, managers, proc, sent, sigenv, codecVars>>

WaitCount(t) ==
    /\ task[t].pc = "idle"
    /\ lock = NoTask
    /\ task' = [task EXCEPT ![t] =
            [IdleTask EXCEPT !.pc = "wait_loop",
                             !.running = Cardinality(Registered)]]
    /\ UNCHANGED <<children, childs, managers, lock, proc, sent, sigenv, codecVars>>

\* wait: the loop has ended, bail!("todo")
WaitReturnOk(t) ==
    /\ task[t].pc = "wait_loop"
    /\ task[t].running = 0
    /\ task' = [task EXCEPT ![t] = [IdleTask EXCEPT !.ret = RetOk("wait")]]
    /\ UNCHANGED <<children, childs, managers, lock, proc, sent, sigenv, codecVars>>

WaitReturn(t) ==
    /\ task[t].pc = "wait_loop"
    /\ task[t].running = 0
    /\ task' = [task EXCEPT ![t] = [IdleTask EXCEPT !.ret = RetErr("wait", "todo")]]
    /\ UNCHANGED <<children, childs, managers, lock, proc, sent, sigenv, codecVars>>

\* wait: waitpid(-1) fails with ECHILD when the caller has no child process
WaitNoChild(t) ==
    /\ task[t].pc = "wait_loop"
    /\ task[t].running # 0
    /\ \A p \in Pids : proc[p].st = "free"
    /\ task' = [task EXCEPT ![t] =
            [IdleTask EXCEPT !.ret = RetErr("wait", "Failed to wait on pids")]]
    /\ UNCHANGED <<children, childs, managers, lock, proc, sent, sigenv, codecVars>>

\* wait: waitpid(-1) reaps the terminated process p.  Exited goes on to the
\* lookup; Signaled is `continue`
WaitReap(t, p) ==
    /\ task[t].pc = "wait_loop"
    /\ task[t].running # 0
    /\ proc[p].st = "zombie"
    /\ proc' = [proc EXCEPT ![p] = FreeProc]
    /\ task' = IF proc[p].exit.kind = "exited"
               THEN [task EXCEPT ![t].pc = "wait_lookup", ![t].pid = p,
                                 ![t].status = proc[p].exit.code]
               ELSE task
    /\ UNCHANGED <<children, childs, managers, lock, sent, sigenv, codecVars>>

\* wait's lookup, were an unknown process id to count as a reaped child
WaitLookupCounts(t) ==
    /\ task[t].pc = "wait_lookup"
    /\ lock = NoTask
    /\ task' = IF childs[task[t].pid] = 0
               THEN [task EXCEPT ![t].pc = "wait_loop", ![t].pid = 0,
                                 ![t].status = 0, ![t].running = @ - 1]
               ELSE [task EXCEPT ![t].pc = "wait_update",
                                 ![t].slot = SlotOf(task[t].pid)]
    /\ UNCHANGED <<children, childs, managers, lock, proc, sent, sigenv, codecVars>>

\* wait: get_child(&pid) under the lock; the reference it returns outlives the
\* guard (mem::transmute) and is the address of the entry's place in the node
WaitLookup(t) ==
    /\ task[t].pc = "wait_lookup"
    /\ lock = NoTask
    /\ task' = IF childs[task[t].pid] = 0
               THEN [task EXCEPT ![t].pc = "wait_loop", ![t].pid = 0,
                                 ![t].status = 0]
               ELSE [task EXCEPT ![t].pc = "wait_update",
                                 ![t].slot = SlotOf(task[t].pid)]
    /\ UNCHANGED <<children, childs, managers, lock, proc, sent, sigenv, codecVars>>

\* wait: the state change through the reference, and childs_running - 1
WaitUpdateStopped(t) ==
    /\ task[t].pc = "wait_update"
    /\ LET idx == childs[KeyAt(task[t].slot)]
           c   == children[idx]
           r   == ChildSetState(c, Stopped)
       IN  children' = [children EXCEPT ![idx].state = r.state]
    /\ task' = [task EXCEPT ![t].pc = "wait_loop", ![t].pid = 0, ![t].status = 0,
                            ![t].slot = 0, ![t].running = @ - 1]
    /\ UNCHANGED <<childs, managers, lock, proc, sent, sigenv, codecVars>>

WaitUpdate(t) ==
    /\ task[t].pc = "wait_update"
    /\ LET idx == childs[KeyAt(task[t].slot)]
           c   == children[idx]
           r   == IF task[t].status # 0
                  THEN ChildSetExitState(c, task[t].status)
                  ELSE ChildSetState(c, Stopped)
       IN  children' = [children EXCEPT ![idx].state = r.state]
    /\ task' = [task EXCEPT ![t].pc = "wait_loop", ![t].pid = 0, ![t].status = 0,
                            ![t].slot = 0, ![t].running = @ - 1]
    /\ UNCHANGED <<childs, managers, lock, proc, sent, sigenv, codecVars>>

-----------------------------------------------------------------------------
(* Specification SpecCodec: the conversions applied to every input *)

CodecInputs ==
    [kind : {"isize"}, v : Isize] \cup [kind : {"u8"}, v : U8]
        \cup [kind : {"state"}, v : ChildState]

InitCodec ==
    /\ cin \in CodecInputs
    /\ cout = NoOutput
    /\ Quiet
    /\ run = NoRun
    /\ sigenv = "blocked"
    /\ hist = <<>>

ApplyTryFromIsize ==
    /\ cin.kind = "isize"
    /\ cout' = [fn |-> "try_from_isize", r |-> TryFromIsize(cin.v)]
    /\ UNCHANGED <<cin, hist, managerVars, run, sigenv>>

ApplyTryFromU8 ==
    /\ cin.kind = "u8"
    /\ cout' = [fn |-> "try_from_u8", r |-> TryFromU8(cin.v)]
    /\ UNCHANGED <<cin, hist, managerVars, run, sigenv>>

ApplyIsizeFrom ==
    /\ cin.kind = "state"
    /\ cout' = [fn |-> "isize_from", r |-> IsizeFrom(cin.v)]
    /\ UNCHANGED <<cin, hist, managerVars, run, sigenv>>

ApplyU8TryFrom ==
    /\ cin.kind = "state"
    /\ cout' = [fn |-> "u8_try_from", r |-> U8TryFrom(cin.v)]
    /\ UNCHANGED <<cin, hist, managerVars, run, sigenv>>

\* ChildState::try_from(isize::from(s))
ApplyRoundTrip ==
    /\ cin.kind = "state"
    /\ cout' = [fn |-> "roundtrip", r |-> TryFromIsize(IsizeFrom(cin.v))]
    /\ UNCHANGED <<cin, hist, managerVars, run, sigenv>>

NextCodec ==
    \/ ApplyTryFromIsize
    \/ ApplyTryFromU8
    \/ ApplyIsizeFrom
    \/ ApplyU8TryFrom
    \/ ApplyRoundTrip

SpecCodec == InitCodec /\ [][NextCodec]_vars

-----------------------------------------------------------------------------
(* Specification SpecChild: one spawned Child, its methods called in any      *)
(* order while its process runs                                              *)

\* the statuses the harness passes: the extremes of isize, negative, zero, small
HarnessStatuses == {IsizeMin, -1, 0, 7, IsizeMax}
HarnessStates   == PlainStates \cup {Crashed(x) : x \in HarnessStatuses}

InitChild ==
    /\ cin = NoInput
    /\ cout = NoOutput
    /\ children = <<SpawnedChild("a", "Client", 1)>>
    /\ childs = NewChilds
    /\ managers = 0
    /\ lock = NoTask
    /\ task = [t \in Tasks |-> IdleTask]
    /\ proc = [p \in Pids |-> IF p = 1
                  THEN [st |-> "setup", child |-> 1, pend |-> {}, exit |-> NoExit]
                  ELSE FreeProc]
    /\ sent = <<0>>
    /\ run = NoRun
    /\ sigenv \in SigEnvs
    /\ hist = <<>>

Call(op, arg, r) == [op |-> op, arg |-> arg, ok |-> r.ok, state |-> r.state]

\* self.start()
HStart ==
    /\ Len(hist) < MaxCalls
    /\ LET r == ChildStart(children[1]) IN
        /\ children' = [children EXCEPT ![1].state = r.state]
        /\ proc' = IF r.kill /\ KillOk(children[1].pid)
                   THEN [proc EXCEPT ![children[1].pid] = Deliver(@, SIGHUP)]
                   ELSE proc
        /\ sent' = IF r.kill THEN [sent EXCEPT ![1] = @ + 1] ELSE sent
        /\ task' = [task EXCEPT ![1].ret = r.ret]
        /\ hist' = Append(hist, Call("start", None, r.ret))
    /\ UNCHANGED <<cin, cout, childs, managers, lock, run, sigenv>>

\* self.next_state()
HNextState ==
    /\ Len(hist) < MaxCalls
    /\ LET r == ChildNextState(children[1]) IN
        /\ children' = [children EXCEPT ![1].state = r.state]
        /\ task' = [task EXCEPT ![1].ret = r.ret]
        /\ hist' = Append(hist, Call("next_state", None, r.ret))
    /\ UNCHANGED <<cin, cout, childs, managers, lock, run, sigenv, proc, sent>>

\* self.set_state(status)
HSetState(status) ==
    /\ Len(hist) < MaxCalls
    /\ LET r == ChildSetState(children[1], status) IN
        /\ children' = [children EXCEPT ![1].state = r.state]
        /\ task' = [task EXCEPT ![1].ret = r.ret]
        /\ hist' = Append(hist, Call("set_state", status, r.ret))
    /\ UNCHANGED <<cin, cout, childs, managers, lock, run, sigenv, proc, sent>>

\* self.set_exit_state(status)
HSetExitState(status) ==
    /\ Len(hist) < MaxCalls
    /\ LET r == ChildSetExitState(children[1], status) IN
        /\ children' = [children EXCEPT ![1].state = r.state]
        /\ task' = [task EXCEPT ![1].ret = r.ret]
        /\ hist' = Append(hist, Call("set_exit_state", Crashed(status), r.ret))
    /\ UNCHANGED <<cin, cout, childs, managers, lock, run, sigenv, proc, sent>>

NextChild ==
    \/ HStart
    \/ HNextState
    \/ \E status \in HarnessStates : HSetState(status)
    \/ \E status \in HarnessStatuses : HSetExitState(status)
    \/ \E p \in Pids : ProcSetup(p) /\ UNCHANGED run
    \/ \E p \in Pids : ProcSigwait(p) /\ UNCHANGED run
    \/ \E p \in Pids : ProcWrite(p) /\ UNCHANGED run
    \/ \E p \in Pids : ProcExit(p) /\ UNCHANGED run

SpecChild == InitChild /\ [][NextChild]_vars

-----------------------------------------------------------------------------
(* Specification Spec: the driver, Config::run, as task 1, with the cloned    *)
(* processes and the environment                                             *)

Driver == 1

Init ==
    /\ cin = NoInput
    /\ cout = NoOutput
    /\ Quiet
    /\ sigenv \in SigEnvs
    /\ \E containers \in [Names -> OutputFormat] :
          run = [pc |-> "new", containers |-> containers, todo |-> Names,
                 cur |-> "", ret |-> NoRet]
    /\ hist = <<>>

\* ContainerManager::new().context(..)?
RunNew ==
    /\ run.pc = "new"
    /\ childs' = NewChilds
    /\ managers' = 0
    /\ run' = [run EXCEPT !.pc = "create"]
    /\ UNCHANGED <<children, lock, task, proc, sent, sigenv, codecVars>>

\* for (name, config) in &self.containers: manager.create_container(name, config)
RunCreate(name) ==
    /\ run.pc = "create"
    /\ name \in run.todo
    /\ CreateSpawn(Driver, name, run.containers[name])
    /\ run' = [run EXCEPT !.pc = "create_ret", !.todo = @ \ {name}, !.cur = name]

\* .await.with_context(|| format!("Failed to create container {}", name))?
RunCreateRetNoContext ==
    /\ run.pc = "create_ret"
    /\ task[Driver].pc = "idle"
    /\ run' = IF task[Driver].ret.ok
              THEN [run EXCEPT !.pc = "create", !.cur = ""]
              ELSE [run EXCEPT !.pc = "failed", !.cur = "",
                               !.ret = [task[Driver].ret EXCEPT !.op = "run"]]
    /\ UNCHANGED <<managerVars, sigenv, codecVars>>

RunCreateRetIgnoreError ==
    /\ run.pc = "create_ret"
    /\ task[Driver].pc = "idle"
    /\ run' = [run EXCEPT !.pc = "create", !.cur = ""]
    /\ UNCHANGED <<managerVars, sigenv, codecVars>>

RunCreateRet ==
    /\ run.pc = "create_ret"
    /\ task[Driver].pc = "idle"
    /\ run' = IF task[Driver].ret.ok
              THEN [run EXCEPT !.pc = "create", !.cur = ""]
              ELSE [run EXCEPT !.pc = "failed", !.cur = "",
                               !.ret = Ret("run", FALSE, "Failed to create container",
                                           None, run.cur)]
    /\ UNCHANGED <<managerVars, sigenv, codecVars>>

\* manager.start_childs().await;
RunStartEarly ==
    /\ run.pc = "create"
    /\ StartLock(Driver)
    /\ run' = [run EXCEPT !.pc = IF run.todo = {} THEN "start_ret" ELSE "create"]

RunStart ==
    /\ run.pc = "create"
    /\ run.todo = {}
    /\ StartLock(Driver)
    /\ run' = [run EXCEPT !.pc = "start_ret"]

\* let res = manager.wait().await?; what start_childs returned is dropped
RunWait ==
    /\ run.pc = "start_ret"
    /\ WaitCount(Driver)
    /\ run' = [run EXCEPT !.pc = "wait_ret"]

\* the ? after wait, then Ok(())
RunWaitRet ==
    /\ run.pc = "wait_ret"
    /\ task[Driver].pc = "idle"
    /\ run' = IF task[Driver].ret.ok
              THEN [run EXCEPT !.pc = "done", !.ret = RetOk("run")]
              ELSE [run EXCEPT !.pc = "failed",
                               !.ret = [task[Driver].ret EXCEPT !.op = "run"]]
    /\ UNCHANGED <<managerVars, sigenv, codecVars>>

Next ==
    \/ RunNew
    \/ \E name \in Names : RunCreate(name)
    \/ RunCreateRet
    \/ RunStart
    \/ RunWait
    \/ RunWaitRet
    \/ AddChild(Driver) /\ UNCHANGED run
    \/ StartOne(Driver) /\ UNCHANGED run
    \/ StartDone(Driver) /\ UNCHANGED run
    \/ WaitReturn(Driver) /\ UNCHANGED run
    \/ WaitNoChild(Driver) /\ UNCHANGED run
    \/ \E p \in Pids : WaitReap(Driver, p) /\ UNCHANGED run
    \/ WaitLookup(Driver) /\ UNCHANGED run
    \/ WaitUpdate(Driver) /\ UNCHANGED run
    \/ \E p \in Pids : ProcSetup(p) /\ UNCHANGED run
    \/ \E p \in Pids : ProcSigwait(p) /\ UNCHANGED run
    \/ \E p \in Pids : ProcWrite(p) /\ UNCHANGED run
    \/ \E p \in Pids : ProcExit(p) /\ UNCHANGED run
    \/ \E p \in Pids : EnvCancel(p) /\ UNCHANGED run

Spec == Init /\ [][Next]_vars

-----------------------------------------------------------------------------
(* Specification SpecLive: the driver and the cloned processes under fair     *)
(* scheduling, with no signal from outside                                   *)

\* a step of the task that runs Config::run
DriverStep ==
    \/ RunNew
    \/ \E name \in Names : RunCreate(name)
    \/ RunCreateRet
    \/ RunStart
    \/ RunWait
    \/ RunWaitRet
    \/ AddChild(Driver) /\ UNCHANGED run
    \/ StartOne(Driver) /\ UNCHANGED run
    \/ StartDone(Driver) /\ UNCHANGED run
    \/ WaitReturn(Driver) /\ UNCHANGED run
    \/ WaitNoChild(Driver) /\ UNCHANGED run
    \/ \E p \in Pids : WaitReap(Driver, p) /\ UNCHANGED run
    \/ WaitLookup(Driver) /\ UNCHANGED run
    \/ WaitUpdate(Driver) /\ UNCHANGED run

\* a step of the cloned process p
ProcStep(p) ==
    \/ ProcSetup(p) /\ UNCHANGED run
    \/ ProcSigwait(p) /\ UNCHANGED run
    \/ ProcWrite(p) /\ UNCHANGED run
    \/ ProcExit(p) /\ UNCHANGED run

NextLive ==
    \/ DriverStep
    \/ \E p \in Pids : ProcStep(p)

\* the executor keeps running the driver's task and the kernel keeps scheduling
\* every process that can run
Fairness ==
    /\ WF_vars(DriverStep)
    /\ \A p \in Pids : WF_vars(ProcStep(p))

\* the disciplines of the configs: one without router, one router
LiveConfigs == {"None", "Router"}

InitLive ==
    /\ cin = NoInput
    /\ cout = NoOutput
    /\ Quiet
    /\ sigenv \in SigEnvs
    /\ \E containers \in [Names -> LiveConfigs] :
          run = [pc |-> "new", containers |-> containers, todo |-> Names,
                 cur |-> "", ret |-> NoRet]
    /\ hist = <<>>

SpecLive == InitLive /\ [][NextLive]_vars /\ Fairness

-----------------------------------------------------------------------------
(* Specification SpecManager: the ContainerManager's calls made by NTasks     *)
(* tasks in any order and interleaving                                       *)

InitManager ==
    /\ cin = NoInput
    /\ cout = NoOutput
    /\ Quiet
    /\ sigenv \in SigEnvs
    /\ run = NoRun
    /\ hist = <<>>

\* the next container's name: the names are used in order
NextName == NameSeq[Len(children) + 1]

\* the disciplines the tasks create containers with: one that captures output
ManagerConfigs == {"Client"}

NextManager ==
    \/ \E t \in Tasks, config \in ManagerConfigs :
            CreateSpawn(t, NextName, config) /\ UNCHANGED run
    \/ \E t \in Tasks : AddChild(t) /\ UNCHANGED run
    \/ \E t \in Tasks : StartLock(t) /\ UNCHANGED run
    \/ \E t \in Tasks : StartOne(t) /\ UNCHANGED run
    \/ \E t \in Tasks : StartDone(t) /\ UNCHANGED run
    \/ \E t \in Tasks : WaitCount(t) /\ UNCHANGED run
    \/ \E t \in Tasks : WaitReturn(t) /\ UNCHANGED run
    \/ \E t \in Tasks : WaitNoChild(t) /\ UNCHANGED run
    \/ \E t \in Tasks, p \in Pids : WaitReap(t, p) /\ UNCHANGED run
    \/ \E t \in Tasks : WaitLookup(t) /\ UNCHANGED run
    \/ \E t \in Tasks : WaitUpdate(t) /\ UNCHANGED run
    \/ \E p \in Pids : ProcSetup(p) /\ UNCHANGED run
    \/ \E p \in Pids : ProcSigwait(p) /\ UNCHANGED run
    \/ \E p \in Pids : ProcWrite(p) /\ UNCHANGED run
    \/ \E p \in Pids : ProcExit(p) /\ UNCHANGED run
    \/ \E p \in Pids : EnvCancel(p) /\ UNCHANGED run

SpecManager == InitManager /\ [][NextManager]_vars

-----------------------------------------------------------------------------
(* Specification SpecSequential: the ContainerManager's calls made by one     *)
(* task, one call after the other, in any order                              *)

\* the disciplines the task creates containers with: one that captures output,
\* one router
SequentialConfigs == {"Client", "Router"}

NextSequential ==
    \/ \E config \in SequentialConfigs :
            CreateSpawn(Driver, NextName, config) /\ UNCHANGED run
    \/ AddChild(Driver) /\ UNCHANGED run
    \/ StartLock(Driver) /\ UNCHANGED run
    \/ StartOne(Driver) /\ UNCHANGED run
    \/ StartDone(Driver) /\ UNCHANGED run
    \/ WaitCount(Driver) /\ UNCHANGED run
    \/ WaitReturn(Driver) /\ UNCHANGED run
    \/ WaitNoChild(Driver) /\ UNCHANGED run
    \/ \E p \in Pids : WaitReap(Driver, p) /\ UNCHANGED run
    \/ WaitLookup(Driver) /\ UNCHANGED run
    \/ WaitUpdate(Driver) /\ UNCHANGED run
    \/ \E p \in Pids : ProcSetup(p) /\ UNCHANGED run
    \/ \E p \in Pids : ProcSigwait(p) /\ UNCHANGED run
    \/ \E p \in Pids : ProcWrite(p) /\ UNCHANGED run
    \/ \E p \in Pids : ProcExit(p) /\ UNCHANGED run
    \/ \E p \in Pids : EnvCancel(p) /\ UNCHANGED run

SpecSequential == InitManager /\ [][NextSequential]_vars

-----------------------------------------------------------------------------
(* Claims about the conversions (SpecCodec) *)

\* the statuses that survive the 4-bit left shift of the encoding: those that
\* fit in WordBits - 4 signed bits
ShiftSafe == -(2 ^ (WordBits - 5)) .. (2 ^ (WordBits - 5) - 1)

\* C1 as stated: decode(encode(s)) = s for every ChildState s, Crashed(status)
\* for every status an isize can hold included.
C1_RoundTripEveryStatus ==
    cout.fn = "roundtrip" => cout.r = Ok(cin.v)

\* C1 amended: decode(encode(s)) = s for None, Created, Started, Stopped and for
\* Crashed(status) with every status, negative or positive, that fits in the
\* word without its top 4 bits; for every other status the round trip yields
\* a Crashed with a different status.
C1_RoundTrip ==
    cout.fn = "roundtrip" =>
        IF cin.v.tag = "Crashed" /\ cin.v.status \notin ShiftSafe
        THEN cout.r.ok /\ cout.r.val.tag = "Crashed" /\ cout.r.val # cin.v
        ELSE cout.r = Ok(cin.v)

C1_Witness ==
    /\ cout.fn = "roundtrip"
    /\ cin.v = Crashed(-1)
    /\ cout.r = Ok(Crashed(-1))

\* C2: decode(v) is an error exactly when the low 4 bits of v, as a number
\* 0..15, are in 5..15, and succeeds when they are in 0..4, for negative v too.
C2_DecodeErrors ==
    cout.fn = "try_from_isize" =>
        /\ (cin.v % 16) \in 5 .. 15 => ~cout.r.ok
        /\ (cin.v % 16) \in 0 .. 4 => cout.r.ok

C2_Witness ==
    /\ cout.fn = "try_from_isize"
    /\ cin.v < 0
    /\ (cin.v % 16) = 12
    /\ ~cout.r.ok

\* C3: encode gives 0, 1, 2, 3 for None, Created, Started, Stopped and
\* (status << 4) | 4 for Crashed(status), for every status; Crashed(7) gives
\* 116 and Crashed(0) gives 4.
C3_Encode ==
    cout.fn = "isize_from" =>
        /\ cin.v = None    => cout.r = 0
        /\ cin.v = Created => cout.r = 1
        /\ cin.v = Started => cout.r = 2
        /\ cin.v = Stopped => cout.r = 3
        /\ cin.v.tag = "Crashed" => cout.r = Or(Shl(cin.v.status, 4), 4)
        /\ cin.v = Crashed(7) => cout.r = 116
        /\ cin.v = Crashed(0) => cout.r = 4

C3_Witness ==
    /\ cout.fn = "isize_from"
    /\ cin.v = Crashed(7)
    /\ cout.r = 116

-----------------------------------------------------------------------------
(* Claims about Child (SpecChild) *)

\* the state the harness's Child reads
HState == StateOf(children[1].state)
Terminal(st) == st = Stopped \/ st.tag = "Crashed"

\* C4: start() succeeds only when the state is Created, and then the state is
\* Started and SIGHUP has been sent to the process; in any other state it
\* returns an error carrying the observed state, sends nothing and leaves the
\* state as it was.  A second start() right after a successful one fails and
\* reports Started.
C4_StartStep ==
    HStart =>
        IF HState = Created
        THEN /\ task'[1].ret.ok
             /\ StateOf(children'[1].state) = Started
             /\ sent'[1] = sent[1] + 1
             /\ proc' = [proc EXCEPT ![1] = Deliver(@, SIGHUP)]
        ELSE /\ ~task'[1].ret.ok
             /\ task'[1].ret.state = HState
             /\ children' = children
             /\ sent' = sent
             /\ proc' = proc

C4_StartTwice ==
    \A i \in 1 .. Len(hist) - 1 :
        (hist[i].op = "start" /\ hist[i].ok /\ hist[i + 1].op = "start")
            => (~hist[i + 1].ok /\ hist[i + 1].state = Started)

C4_Start == [][C4_StartStep]_vars /\ []C4_StartTwice

C4_Witness ==
    /\ Len(hist) = 2
    /\ hist[1].op = "start" /\ hist[1].ok
    /\ hist[2].op = "start" /\ ~hist[2].ok /\ hist[2].state = Started
    /\ HState = Started
    /\ sent[1] = 1

\* C5: a successful next_state() moves the state one step, Created to Started
\* or Started to Stopped; from Stopped and from Crashed(status), any status, it
\* fails and leaves the state as it was.  From the Created of a fresh Child the
\* first two calls succeed and every later one fails.
C5_AdvanceStep ==
    HNextState =>
        /\ HState = Created => task'[1].ret.ok /\ StateOf(children'[1].state) = Started
        /\ HState = Started => task'[1].ret.ok /\ StateOf(children'[1].state) = Stopped
        /\ Terminal(HState) => ~task'[1].ret.ok /\ children' = children

C5_AdvanceTwice ==
    (\A i \in 1 .. Len(hist) : hist[i].op = "next_state") =>
        /\ \A i \in 1 .. Len(hist) : hist[i].ok <=> i <= 2
        /\ HState = (CASE Len(hist) = 0 -> Created
                       [] Len(hist) = 1 -> Started
                       [] OTHER         -> Stopped)

C5_Advance == [][C5_AdvanceStep]_vars /\ []C5_AdvanceTwice

C5_Witness ==
    /\ Len(hist) = 3
    /\ \A i \in 1 .. 3 : hist[i].op = "next_state"
    /\ hist[1].ok /\ hist[2].ok /\ ~hist[3].ok
    /\ HState = Stopped

\* C6 as stated: set_exit_state(status) changes a state that is not Stopped or
\* Crashed to Crashed(status) and succeeds; on Stopped or Crashed(x) it fails
\* and leaves the state as it was.
C6_MarkCrashedEveryStatus ==
    [][\A status \in HarnessStatuses :
        HSetExitState(status) =>
            IF Terminal(HState)
            THEN ~task'[1].ret.ok /\ children' = children
            ELSE task'[1].ret.ok /\ StateOf(children'[1].state) = Crashed(status)]_vars

\* C6 amended: as stated for every status that survives the encoding's 4-bit
\* shift; for any other status the call still succeeds on a non-terminal state
\* and stores a Crashed state, whose status is the truncated one.
C6_MarkCrashed ==
    [][\A status \in HarnessStatuses :
        HSetExitState(status) =>
            IF Terminal(HState)
            THEN ~task'[1].ret.ok /\ children' = children
            ELSE /\ task'[1].ret.ok
                 /\ StateOf(children'[1].state).tag = "Crashed"
                 /\ status \in ShiftSafe =>
                        StateOf(children'[1].state) = Crashed(status)]_vars

C6_Witness ==
    /\ Len(hist) = 2
    /\ hist[1].op = "set_exit_state" /\ hist[1].ok /\ hist[1].arg = Crashed(-1)
    /\ hist[2].op = "set_exit_state" /\ ~hist[2].ok /\ hist[2].arg = Crashed(7)
    /\ hist[2].state = Crashed(-1)
    /\ HState = Crashed(-1)


-----------------------------------------------------------------------------
(* Claims about the manager's calls in any order (SpecManager) *)

\* the children that are values of the registry
IsRegistered(i) == childs[children[i].pid] = i

\* C7 (as stated): in every execution of create_container, start_childs and
\* wait, in any order and interleaving, a registered child whose state is
\* Stopped or Crashed(status) keeps that state in every later step.
C7_TerminalNeverLeft ==
    [][\A i \in 1 .. Len(children) :
          (IsRegistered(i) /\ Terminal(StateOf(children[i].state)))
              => children'[i].state = children[i].state]_vars

\* create_container returns Ok in this step of task t
CreateReturnsOk(t) ==
    /\ task[t].pc = "add_child"
    /\ task'[t].pc = "idle"
    /\ task'[t].ret = RetOk("create_container")

\* C9 (as stated): after every successful create_container the registry has
\* exactly one new entry, under the new process id, whose state reads Created,
\* and the entries of the children created before are unchanged.
C9_OneNewEntry ==
    [][\A t \in Tasks : CreateReturnsOk(t) =>
          LET idx == task[t].idx
              pid == children[idx].pid
          IN  /\ pid \notin Registered
              /\ {p \in Pids : childs'[p] # 0} = Registered \cup {pid}
              /\ childs'[pid] = idx
              /\ StateOf(children'[idx].state) = Created
              /\ \A q \in Registered :
                    /\ childs'[q] = childs[q]
                    /\ children'[childs[q]] = children[childs[q]]]_vars

-----------------------------------------------------------------------------
(* Claims about the driver (Spec) *)

\* the process has passed the signal wait of main_child
PastBarrier(p) == proc[p].st \in {"workload", "sleeping"}

\* every container of the config has a registered child
AllRegistered ==
    /\ run.todo = {}
    /\ \A name \in DOMAIN run.containers :
          \E p \in Registered : Entry(p).name = name

\* start_childs has been called by the driver
StartCalled == run.pc \in {"start_ret", "wait_ret", "failed", "done"}
                 /\ run.ret.err # "Failed to create container"

\* C8: in every run of the driver, while a child process executes its workload
\* (it has passed the signal wait) every container of the config is spawned
\* and registered and start_childs has been called; and the step in which a
\* process passes the signal wait is taken in such a state.
C8_StartBarrier ==
    /\ [](\A p \in Pids : PastBarrier(p) => (AllRegistered /\ StartCalled))
    /\ [][\A p \in Pids : (~PastBarrier(p) /\ PastBarrier(p)')
              => (AllRegistered /\ StartCalled
                    /\ Entry(p).pid = p /\ sent[childs[p]] = 1)]_vars

C8_Witness ==
    \E p \in Pids : /\ proc[p].st = "workload"
                    /\ Cardinality(Registered) = MaxChildren

\* the errors Child::spawn_child returns
SpawnErrors == {SpawnError(o) : o \in SpawnOutcomes \ {"ok"}}

\* the names of the registered children
RegisteredNames == {Entry(p).name : p \in Registered}

\* create_container returns an error in this step of the driver
CreateFails ==
    /\ run.pc = "create"
    /\ run'.pc = "create_ret"
    /\ ~task'[Driver].ret.ok

-----------------------------------------------------------------------------
(* Claims about the manager's calls one after the other (SpecSequential) *)

\* task t's wait handles an exit notification in this step: the state change
\* and childs_running - 1
ExitHandled(t) == task[t].pc = "wait_update" /\ task'[t].pc # "wait_update"

-----------------------------------------------------------------------------
(* Claims about wait in the driver (Spec) *)

\* the process of the child registered under p has been reaped
Reaped(p) == proc[p].st = "free"

\* wait's loop has ended: the loop condition was false
LoopEnded(t) == task[t].pc = "idle" /\ task[t].ret = RetErr("wait", "todo")

\* C12 (as stated): the loop of wait ends exactly when every process that was
\* registered at loop entry has exited: when it has ended, each of them is
\* reaped and its child is Stopped or Crashed, and once each of them is reaped
\* the loop goes on to no further waitpid.
C12_LoopEndsWhenAllExited ==
    /\ LoopEnded(Driver) =>
          \A p \in Registered :
              Reaped(p) /\ Terminal(StateOf(Entry(p).state))
    /\ (task[Driver].pc = "wait_loop" /\ \A p \in Registered : Reaped(p))
          => task[Driver].running = 0

\* C13: wait never returns a success result, on no path: also when the loop
\* has ended after every child was reaped, it returns an error.
C13_WaitNeverOk ==
    /\ [](\A t \in Tasks : task[t].ret.op = "wait" => ~task[t].ret.ok)
    /\ [][\A t \in Tasks :
            (task[t].pc \in {"wait_loop", "wait_lookup", "wait_update"}
                /\ task'[t].pc = "idle")
              => (task'[t].ret.op = "wait" /\ ~task'[t].ret.ok)]_vars

\* wait has returned after the loop ended with every child reaped and Stopped
C13_Witness ==
    /\ LoopEnded(Driver)
    /\ Cardinality(Registered) = MaxChildren
    /\ \A p \in Registered : Reaped(p) /\ StateOf(Entry(p).state) = Stopped

\* waitpid reports in this step that process p was killed by a signal
SignaledReported(p) ==
    /\ proc[p].st = "zombie"
    /\ proc[p].exit.kind = "signaled"
    /\ proc'[p].st = "free"

\* C14 (as stated): every notification of waitpid that is not a normal exit
\* makes wait abort the loop: wait returns an error in that step.
C14_OtherStatusAborts ==
    [][\A p \in Pids : SignaledReported(p) =>
          (task'[Driver].pc = "idle" /\ ~task'[Driver].ret.ok)]_vars

-----------------------------------------------------------------------------
(* Claims about the driver under fair scheduling (SpecLive) *)

\* every container of the config has discipline None and has been spawned
\* and registered: the driver is about to call start_childs
AllNoneCreated ==
    /\ \A name \in DOMAIN run.containers : run.containers[name] = "None"
    /\ AllRegistered
    /\ run.pc = "create"

\* the state of the i-th child that was spawned
StateIs(i, st) == Len(children) >= i /\ StateOf(children[i].state) = st

\* C15 (as stated): in a run of the driver over containers that all have
\* discipline None and all spawn successfully, under fair scheduling every
\* child's state eventually reads Started and later Stopped.
C15_StartedThenStopped ==
    \A i \in 1 .. MaxChildren :
        /\ AllNoneCreated ~> StateIs(i, Started)
        /\ StateIs(i, Started) ~> StateIs(i, Stopped)

-----------------------------------------------------------------------------
(* Claims about the order of the driver's calls (Spec) *)

\* the call the driver is in
InCreate == task[Driver].pc = "add_child"
InStart  == task[Driver].pc = "start_loop"
InWait   == task[Driver].pc \in {"wait_loop", "wait_lookup", "wait_update"}

\* the run was aborted by a failing create_container
CreateAborted ==
    run.pc = "failed" /\ run.ret.err = "Failed to create container"

\* C16: the driver calls new, then create_container once per entry of the
\* config, then start_childs, then wait; a failing create_container aborts the
\* run with an error that carries the container's name, after which no call
\* is made and no child is sent the start signal.
C16_DriverOrder ==
    /\ [](/\ run.pc = "new" => (children = <<>> /\ task[Driver].pc = "idle")
          /\ InCreate => run.pc = "create_ret"
          /\ InStart => (run.pc = "start_ret" /\ AllRegistered)
          /\ InWait => (run.pc = "wait_ret" /\ AllRegistered)
          /\ \A i, j \in 1 .. Len(children) :
                children[i].name = children[j].name => i = j
          /\ \A i \in 1 .. Len(children) : children[i].name \notin run.todo
          /\ CreateAborted =>
                /\ run.ret.name \in DOMAIN run.containers
                /\ run.ret.name \notin RegisteredNames
                /\ task[Driver].pc = "idle"
                /\ \A i \in 1 .. Len(children) :
                      sent[i] = 0 /\ StateOf(children[i].state) = Created)
    /\ [][(~InStart /\ InStart') => (run.pc = "create" /\ run.todo = {})]_vars
    /\ [][(~InWait /\ InWait') =>
              (run.pc = "start_ret" /\ task[Driver].ret = RetOk("start_childs"))]_vars
    /\ [][(run.pc = "create_ret" /\ ~task[Driver].ret.ok /\ run' # run) =>
              (CreateAborted' /\ run'.ret.name = run.cur)]_vars
    /\ [][CreateAborted =>
              (run' = run /\ task' = task /\ sent' = sent /\ childs' = childs)]_vars

\* the second create_container failed: the first child stays behind the
\* barrier, registered, Created and never signalled
C16_Witness ==
    /\ CreateAborted
    /\ Cardinality(Registered) = 1
    /\ \A p \in Registered :
          /\ proc[p].st = "sigwait"
          /\ sent[childs[p]] = 0
          /\ StateOf(Entry(p).state) = Created

\* C17 (as stated): the driver treats any outcome of wait as logged and moves
\* on: when wait has returned its error, the run goes on to its finish step
\* and completes successfully.
C17_WaitErrorIgnored ==
    [][(run.pc = "wait_ret" /\ run' # run) =>
          (run'.pc = "done" /\ run'.ret.ok)]_vars

\* C19 (as stated): no caller reads or writes a Child through the reference
\* get_child returned at a point where the registry lock is not held.
C19_NoUseOutsideLock ==
    [][\A t \in Tasks : ExitHandled(t) => lock = t]_vars

-----------------------------------------------------------------------------
(* Claims about the router counter (SpecSequential) *)

\* the router-type containers that are in the registry
RegisteredRouters == {p \in Registered : IsRouter(Entry(p).config)}

\* C18 (as stated): the counter starts at 0 and after any sequence of
\* create_container calls, successful or failing, it equals the number of
\* router-type containers in the registry.
C18_RouterCount ==
    task[Driver].pc = "idle" => managers = Cardinality(RegisteredRouters)

-----------------------------------------------------------------------------
(* Claims about the registry lock (SpecManager) *)

\* task t is in wait's loop: blocked in waitpid or handling a notification
InLoop(t) == task[t].pc \in {"wait_loop", "wait_lookup", "wait_update"}

\* C20: wait never holds the registry lock while it is blocked in waitpid:
\* it takes the lock for the entry count and for each lookup only, so while a
\* task is in the loop the lock is free or held by another task's call.
C20_WaitHoldsNoLock ==
    /\ [](\A t \in Tasks : InLoop(t) => lock # t)
    /\ [](lock # NoTask => task[lock].pc = "start_loop")
    /\ [][\A t \in Tasks : (InLoop(t) /\ InLoop(t)') => lock' # t]_vars

\* one task is blocked in waitpid (no process to reap) while another task's
\* start_childs holds the lock
C20_Witness ==
    \E t, u \in Tasks :
        /\ task[t].pc = "wait_loop"
        /\ task[t].running # 0
        /\ \A p \in Pids : proc[p].st # "zombie"
        /\ lock = u
        /\ task[u].pc = "start_loop"

-----------------------------------------------------------------------------
(* Claims about the registry's entries (SpecSequential) *)

\* C21 (as stated): no manager operation removes or replaces a registry
\* entry: a Child inserted under its process id is the entry under that id in
\* every later state, with its capture handle, also after wait has reaped the
\* process and after further create_container calls.
C21_EntriesKept ==
    [][\A p \in Registered :
          /\ childs'[p] = childs[p]
          /\ children'[childs[p]].file.some = children[childs[p]].file.some
          /\ ~children'[childs[p]].dropped]_vars

-----------------------------------------------------------------------------
(* Claims about cancellation at the barrier (Spec) *)

\* process p terminates in this step and its child has not been sent the
\* start signal: the cancel signal came first
CancelledBeforeStart(p) ==
    /\ Live(proc[p])
    /\ sent[proc[p].child] = 0
    /\ proc'[p].st = "zombie"

\* the distinguished exit code of a cancelled child: main_child's return 1
CancelCode == ExitCode(MainChildBarrier(SIGINT).ret)

\* the exit codes of an unexpected signal and of a failed signal wait
OtherCodes ==
    {ExitCode(MainChildBarrier(sig).ret) : sig \in {3, 15}}
        \cup {ExitCode(MainChildBarrier(-e).ret) : e \in {1, 22}}

\* C22 (as stated): a child that receives the cancel signal before the start
\* signal terminates without running its workload (nothing is written to its
\* capture file) with the cancel exit code, which differs from 0 and from the
\* codes of an unexpected signal and of a failed signal wait; when wait reaps
\* it, it goes on to record Crashed with that code.
C22_CancelAtBarrier ==
    /\ [](CancelCode # 0 /\ CancelCode \notin OtherCodes)
    /\ [][\A p \in Pids : CancelledBeforeStart(p) =>
              /\ proc'[p].exit = Exited(CancelCode)
              /\ children'[proc[p].child].file.len = 0]_vars
    /\ [][\A p \in Pids :
              (proc[p].st = "zombie" /\ proc'[p].st = "free"
                 /\ proc[p].exit \in {Exited(CancelCode), Signaled(SIGINT)})
              => (task'[Driver].pc = "wait_lookup"
                    /\ task'[Driver].pid = p
                    /\ task'[Driver].status = CancelCode)]_vars

-----------------------------------------------------------------------------
(* Claims about the capture file *)

CaptureDisciplines == {"Client", "Passthrough", "RouterLogging"}

\* C23 (as stated): a child has a capture file exactly when its discipline is Client,
\* Passthrough or RouterLogging, and a registered child with a capture file
\* whose state is Stopped has a non-empty file that the manager still holds
\* open.
C23_CaptureFile ==
    \A i \in 1..Len(children) :
        /\ children[i].file.some <=> children[i].config \in CaptureDisciplines
        /\ (IsRegistered(i) /\ children[i].file.some
              /\ StateOf(children[i].state) = Stopped)
           => (children[i].file.len > 0 /\ ~children[i].dropped)

-----------------------------------------------------------------------------
(* Claims about Child::set_state (SpecChild) *)

\* the call the step appends to the history
NewCall == hist'[Len(hist')]
IsCall(op) == Len(hist') = Len(hist) + 1 /\ NewCall.op = op

\* a state whose encoding decodes to itself (C1)
Storable(st) == st.tag = "Crashed" => st.status \in ShiftSafe

\* C24: set_state never fails, returns the state stored immediately before
\* the call (the argument of a directly preceding set_state included) and
\* stores the encoding of its argument whatever that previous state was,
\* Stopped and Crashed included.
C24_SetStateOverwrites ==
    [][IsCall("set_state") =>
          /\ NewCall.ok
          /\ NewCall.state = HState
          /\ children'[1].state = IsizeFrom(NewCall.arg)
          /\ Storable(NewCall.arg) => HState' = NewCall.arg
          /\ (Len(hist) > 0 /\ hist[Len(hist)].op = "set_state"
                /\ Storable(hist[Len(hist)].arg))
             => NewCall.state = hist[Len(hist)].arg]_vars

\* set_state has just replaced a Crashed state by Created and returned the
\* Crashed state
C24_Witness ==
    /\ Len(hist) > 1
    /\ hist[Len(hist)].op = "set_state"
    /\ hist[Len(hist)].state = Crashed(7)
    /\ hist[Len(hist)].arg = Created
    /\ HState = Created

-----------------------------------------------------------------------------
(* Claims about exit notifications for unknown process ids (SpecManager) *)

\* task t's wait looks up, in this step, a process id the registry does not
\* hold
LooksUpUnknown(t) ==
    /\ task[t].pc = "wait_lookup"
    /\ childs[task[t].pid] = 0
    /\ task'[t] # task[t]

\* C25: when wait is told of the exit of a process id that is not in the
\* registry, it goes back to waiting, no child's state and no registry entry
\* changes, and its count of children still to be reaped stays as it was.
C25_UnknownPidIgnored ==
    [][\A t \in Tasks : LooksUpUnknown(t) =>
          /\ task'[t].pc = "wait_loop"
          /\ task'[t].running = task[t].running
          /\ task'[t].ret = task[t].ret
          /\ children' = children
          /\ childs' = childs]_vars

\* a process that was spawned but is not yet registered has exited and been
\* reaped by the other task's wait, which is waiting again
C25_Witness ==
    /\ sigenv = "blocked"
    /\ \E t, u \in Tasks :
          /\ task[u].pc = "add_child"
          /\ childs[children[task[u].idx].pid] = 0
          /\ proc[children[task[u].idx].pid].st = "free"
          /\ task[t].pc = "wait_loop"
          /\ task[t].running > 0

-----------------------------------------------------------------------------
(* Claims about what the barrier guarantees of the siblings (Spec) *)

\* the process has not yet run main_child's sethostname
BeforeHostname(q) == proc[q].st = "setup"

\* C26 (as stated): while a child executes its workload, every sibling
\* process has completed its setup, the sethostname of main_child included.
C26_SiblingsSetUp ==
    \A p \in Pids : PastBarrier(p) => \A q \in Pids : ~BeforeHostname(q)

\* child i has been cloned into its namespaces: its process id holds its
\* process, or the process has ended and been reaped
Cloned(i) ==
    /\ children[i].pid \in Pids
    /\ proc[children[i].pid].child = i \/ proc[children[i].pid].st = "free"

\* C26 (amended): while a child executes its workload, every container of the
\* config has a registered child whose process has been cloned; the sibling
\* may not yet have run its sethostname.
C26_SiblingsCloned ==
    \A p \in Pids : PastBarrier(p) =>
        \A name \in DOMAIN run.containers :
            \E i \in 1..Len(children) :
                /\ children[i].name = name
                /\ IsRegistered(i)
                /\ Cloned(i)

\* a child executes its workload while a sibling has not yet set its hostname
C26_Witness ==
    \E p, q \in Pids : /\ proc[p].st = "workload"
                       /\ BeforeHostname(q)
                       /\ IsRegistered(proc[q].child)

-----------------------------------------------------------------------------
(* Claims about the delivery of the start signal (SpecLive) *)

\* start() has sent SIGHUP to the process of the i-th child
StartSent(i) == Len(children) >= i /\ sent[i] >= 1

\* the process of the i-th child executes its workload
InWorkload(i) ==
    /\ Len(children) >= i
    /\ proc[children[i].pid].child = i
    /\ PastBarrier(children[i].pid)

\* the process of the i-th child has passed the barrier: it executes its
\* workload, or has run it and returned 0, or has been recorded as Stopped
Passed(i) ==
    \/ InWorkload(i)
    \/ /\ Len(children) >= i
       /\ proc[children[i].pid].child = i
       /\ proc[children[i].pid].exit = Exited(0)
    \/ StateIs(i, Stopped)

\* C27 (as stated): under fair scheduling every child that start() has sent
\* the start signal eventually passes the barrier and executes its workload,
\* whether the signal arrives before or after the child is in sigwait.
C27_StartNeverLost ==
    \A i \in 1 .. MaxChildren : StartSent(i) ~> Passed(i)

-----------------------------------------------------------------------------
(* Claims about router children (SpecLive) *)

\* process p runs the workload of a router child
RouterRunning(p) ==
    /\ PastBarrier(p)
    /\ IsRouter(children[proc[p].child].config)

\* the driver's wait takes a step
WaitStep ==
    /\ task[Driver].pc \in {"wait_loop", "wait_lookup", "wait_update"}
    /\ task'[Driver] # task[Driver]

-----------------------------------------------------------------------------
(* Claims about the state word of registered children (SpecManager) *)

\* the low four bits of the word, as the decoder reads them
TagOf(word) == And(word, 15)

\* C29: the state word of every registered child is a valid encoding: its
\* low four bits are a tag in 0..4, it decodes without error, and the state it
\* decodes to is not None.
C29_ValidWord ==
    \A i \in 1..Len(children) : IsRegistered(i) =>
        /\ TagOf(children[i].state) \in 0..4
        /\ TryFromIsize(children[i].state).ok
        /\ TryFromIsize(children[i].state).val # None
        /\ StateOf(children[i].state) = TryFromIsize(children[i].state).val

\* a registered child holds the encoding of Crashed(1), written by wait
C29_Witness ==
    \E i \in 1..Len(children) :
        /\ IsRegistered(i)
        /\ children[i].state = IsizeFrom(Crashed(1))
        /\ TagOf(children[i].state) = 4

-----------------------------------------------------------------------------
(* Claims about repeated and racing calls of Child::start (SpecManager) *)

\* the state of the i-th spawned child before and after the step
Before(i) == StateOf(children[i].state)
After(i)  == StateOf(children'[i].state)

\* C30: however often and by whichever task start() is called on a child, it
\* sends the start signal at most once, and only in the call that takes the
\* child from Created to Started; a child becomes Started in no other way, and
\* a child that is Stopped or Crashed never becomes Started, also when start()
\* runs while wait records the child's exit.
C30_StartOnce ==
    /\ [](\A i \in 1..Len(children) : sent[i] <= 1)
    /\ [][\A i \in 1..Len(children) :
             /\ sent'[i] # sent[i] =>
                   (sent'[i] = sent[i] + 1 /\ Before(i) = Created
                      /\ After(i) = Started)
             /\ (Before(i) # Started /\ After(i) = Started) =>
                   (Before(i) = Created /\ sent'[i] = sent[i] + 1)
             /\ Terminal(Before(i)) => After(i) # Started]_vars

\* start_childs has called start() on a registered child that wait had
\* already recorded as Crashed: no signal was sent and the state was kept
C30_Witness ==
    \E t \in Tasks :
        /\ task[t].pc = "start_loop"
        /\ task[t].iter \in Registered
        /\ sent[childs[task[t].iter]] = 0
        /\ StateOf(Entry(task[t].iter).state) = Crashed(1)

-----------------------------------------------------------------------------
(* Claims about repeated calls of start_childs (SpecSequential) *)

\* no registered child is still Created: start() has been called on each
NoneCreated == \A p \in Registered : StateOf(Entry(p).state) # Created

\* the task has returned from start_childs and called nothing since
StartReturned == task[Driver].pc = "idle" /\ task[Driver].ret.op = "start_childs"

\* a step of a call of start_childs: taking the lock, one start(), returning
StartStep ==
    /\ task'[Driver] # task[Driver]
    /\ \/ task[Driver].pc = "start_loop"
       \/ task[Driver].pc = "idle" /\ task'[Driver].pc = "start_loop"

\* C31: start_childs returns Ok whatever the start() calls returned, and when
\* it has returned no registered child is Created; a call of start_childs made
\* when no registered child is Created (as after an earlier call) changes no
\* child's state, sends no signal and changes no process.
C31_StartChildsIdempotent ==
    /\ [](StartReturned => (task[Driver].ret = RetOk("start_childs") /\ NoneCreated))
    /\ [][(task[Driver].pc = "start_loop" /\ task'[Driver].pc # "start_loop")
             => task'[Driver].ret = RetOk("start_childs")]_vars
    /\ [][(NoneCreated /\ StartStep) =>
             (children' = children /\ sent' = sent /\ proc' = proc
                /\ childs' = childs)]_vars

\* a later call of start_childs has called start() on a child that an earlier
\* call started and that wait has since recorded as Stopped
C31_Witness ==
    /\ task[Driver].pc = "start_loop"
    /\ task[Driver].iter \in Registered
    /\ sent[childs[task[Driver].iter]] = 1
    /\ StateOf(Entry(task[Driver].iter).state) = Stopped

-----------------------------------------------------------------------------
(* Claims about the way into Stopped (SpecManager) *)

\* C32 (as stated): a child's state becomes Stopped only in a step before
\* which it was Started; in particular no child goes from Created to Stopped.
C32_StoppedFromStarted ==
    [][\A i \in 1..Len(children) :
          (Before(i) # Stopped /\ After(i) = Stopped) => Before(i) = Started]_vars

-----------------------------------------------------------------------------
(* Claims about the single-byte conversions (SpecCodec) *)

\* C33: u8::try_from gives 0, 1, 2, 3 for None, Created, Started, Stopped, and
\* ChildState::try_from of that byte gives the state back; u8::try_from fails
\* for Crashed(status) with every status; ChildState::try_from gives None,
\* Created, Started, Stopped for the bytes 0, 1, 2, 3, which convert back to
\* the byte, and fails for every byte of 4 or more.
C33_ByteConversion ==
    /\ cout.fn = "u8_try_from" =>
        /\ cin.v = None    => cout.r = Ok(0)
        /\ cin.v = Created => cout.r = Ok(1)
        /\ cin.v = Started => cout.r = Ok(2)
        /\ cin.v = Stopped => cout.r = Ok(3)
        /\ cin.v \in PlainStates => TryFromU8(cout.r.val) = Ok(cin.v)
        /\ cin.v.tag = "Crashed" => ~cout.r.ok
    /\ cout.fn = "try_from_u8" =>
        /\ cin.v = 0 => cout.r = Ok(None)
        /\ cin.v = 1 => cout.r = Ok(Created)
        /\ cin.v = 2 => cout.r = Ok(Started)
        /\ cin.v = 3 => cout.r = Ok(Stopped)
        /\ cin.v <= 3 => U8TryFrom(cout.r.val) = Ok(cin.v)
        /\ cin.v >= 4 => ~cout.r.ok

\* the byte 4, the tag of Crashed in the word, has been refused
C33_Witness ==
    /\ cout.fn = "try_from_u8"
    /\ cin.v = 4
    /\ ~cout.r.ok

====
